---- MODULE Spec2Model ----
(***************************************************************************)
(* The incremental list harvesters of PyInstaDump.                         *)
(*                                                                         *)
(*   script = "followers" : src/scrape_followers.py, run_scrape and        *)
(*       collect_usernames_from_followers_dialog                           *)
(*   script = "pengikis"  : src/pyinstadump/pengikis.py,                   *)
(*       PengikisInstagram.jalankan and _gulir_dan_muat_data               *)
(*                                                                         *)
(* One behaviour is one session of one of the two scripts.  The browser    *)
(* (page.evaluate, locator().count(), the DOM) is the environment: what it *)
(* returns, and whether it raises, is chosen with \E in every action.      *)
(***************************************************************************)
EXTENDS Integers, Sequences, FiniteSets, TLC

VARIABLES
    script,               \* which script this session runs
    pc,                   \* position of the control flow
    error,                \* where an exception that left its function was raised
    \* ---- scrape_followers.py
    limit,                \* collect_usernames_from_followers_dialog(limit)
    usernames,            \* the accumulator (list)
    seen,                 \* the set that guards it
    prev_count,
    attempts_no_change,
    found,                \* the part of the extractor output not merged yet
    returned,             \* what collect_usernames_from_followers_dialog returned
    results,              \* run_scrape: the rows handed to write_csv
    ret,                  \* run_scrape's return code, -1 while none
    debug_calls,          \* calls of save_debug_artifacts
    extractions,          \* history: extractor calls (= loop iterations started)
    scrolls,              \* history: scroll advances that were issued
    firstSeen,            \* history: every identifier ever output, by first output
    firstFound,           \* history: the first extractor output
    fixed,                \* history: every output so far held the same set
    \* ---- pyinstadump/pengikis.py
    hasil_scrape,         \* the accumulator: list of <<username, nama_lengkap>>
    username_terproses,   \* the set that guards it
    scroll_attempts,
    previous_count,
    current_count,
    jumlah_container,     \* _ekstrak_data_real_time: rows counted at entry
    i,                    \* _ekstrak_data_real_time: rows done
    call_site,            \* _ekstrak_data_real_time: where it was called from
    rejected,             \* history: rows the running call skipped as processed
    auto_saves,           \* calls of _auto_save_data
    closed,               \* tutup() ran
    hasil_returned,       \* what jalankan returned
    \* ---- opening the list, in both scripts
    browser,              \* "none", "open" or "closed"
    open_why,             \* why the list could not be opened, "none" while it could
    strategy,             \* the resolver: rank of the strategy tried next
    attempted,            \* the resolver: outcome of every strategy tried so far
    loc,                  \* the resolver: the element it settled on
    attempt,              \* _login_dengan_cookie: the loop index
    goto_calls,           \* goto calls the running _login_dengan_cookie has made
    last_goto,            \* history: how the latest of them ended
    \* ---- save_debug_artifacts
    debug_logged,         \* captures that failed and were logged
    png_files,            \* screenshots written
    html_files,           \* markup snapshots written
    \* ---- history of the environment
    root_lost,            \* the scroll found no element under the selector
    interrupted,          \* SIGINT was delivered
    \* ---- the waits between iterations
    pause,                \* the latest wait, in tenths of a second (0: none yet)
    no_growth_run,        \* iterations in a row, up to now, with the count unchanged
    \* ---- the target descriptor
    target,               \* the username given
    mode_kikis,           \* the list asked for
    \* ---- two sessions in one process
    t_phase,              \* each session: "none", "running", "done"
    t_held,               \* each session's own list (hasil_scrape, usernames)
    t_result,             \* what each session gave back, or wrote
    sigint_handler,       \* the session whose _signal_handler the process holds (0: none)
    sigint_called,        \* the session whose handler a SIGINT called (0: none)
    results_csv,          \* the rows of data/results.csv
    \* ---- run_scraper.py
    diag_ok,              \* what the diagnostic fetch gave
    scraper_launched,     \* subprocess.call started the scraper
    rc,                   \* what subprocess.call returned (NoCode: nothing yet)
    exit_status,          \* the exit status of run_scraper.py (NoCode: none yet)
    \* ---- scrape_profiles.py
    s_usernames,          \* usernames, as load_usernames gave them
    s_rows,               \* the rows of data/results.csv after the header
    s_outcomes,           \* what happened while each profile was scraped
    s_captures,           \* the calls of save_debug_artifacts made for each profile
    partial_file          \* the file _auto_save_data wrote (NoFile: none)

varsF == <<limit, usernames, seen, prev_count, attempts_no_change, found, returned,
           results, ret, debug_calls, extractions, scrolls, firstSeen, firstFound, fixed>>
varsP == <<hasil_scrape, username_terproses, scroll_attempts, previous_count,
           current_count, jumlah_container, i, call_site, rejected,
           auto_saves, closed, hasil_returned>>
varsO == <<open_why, strategy, attempted, loc, attempt, goto_calls, last_goto>>
varsD == <<debug_logged, png_files, html_files>>
varsH == <<root_lost, interrupted>>
varsX == <<browser, varsO, varsD, varsH>>
varsW == <<pause, no_growth_run>>
varsT == <<t_phase, t_held, t_result, sigint_handler, sigint_called, results_csv>>
varsR == <<diag_ok, scraper_launched, rc, exit_status>>
varsS == <<s_usernames, s_rows, s_outcomes, s_captures>>
varsA == <<partial_file>>
varsN == <<target, mode_kikis, varsT, varsR, varsS, varsA>>
vars == <<script, pc, error, varsF, varsP, varsX, varsW, varsN>>

(***************************************************************************)
(* Bounds of the model.                                                    *)
(***************************************************************************)
MaxLimit == 2          \* largest cap tried (FOLLOWERS_LIMIT is any integer)
MaxFound == 2          \* anchors in the dialog at one extraction
MaxContainers == 2     \* list rows in the dialog at one extraction
max_scrolls == 6       \* pengikis.py:182 sets 10000; scaled, it stays above 5
MaxMatches == 2        \* elements one strategy of a resolver can match

(***************************************************************************)
(* Program constants.                                                      *)
(***************************************************************************)
max_attempts_no_change == 5

\* The usernames a session can be given: none, or one.
Targets == {"", "x"}

\* Lines 46-49: the keys of mode_map.
ModeMap == {"followers", "following"}

\* The modes a session can be given: one of mode_map, and one that is not.
Modes == {"followers", "likes"}

\* Line 27: SCROLL_PAUSE, 0.6 s unless the environment says otherwise, in
\* tenths of a second.
SCROLL_PAUSE == 6
PlateauAttempts == 5
CountStop == 100000
MaxUsernameLen == 30
Strategies == 3
LoginAttempts == 5

Ids == {"a", "b", "c", "d"}
Limits == (0 - 1)..MaxLimit

Range(s) == {s[n] : n \in 1..Len(s)}
BoundedSeq(S, n) == UNION {[1..k -> S] : k \in 0..n}
IsPrefix(s, t) == Len(s) <= Len(t) /\ SubSeq(t, 1, Len(s)) = s
NoDuplicates(s) == \A m, n \in 1..Len(s) : s[m] = s[n] => m = n
Min(a, b) == IF a <= b THEN a ELSE b
Max(a, b) == IF a >= b THEN a ELSE b

\* Python's s[:n]: the first n elements, or all but the last -n when n < 0.
PySliceTo(s, n) ==
    IF n >= 0 THEN SubSeq(s, 1, Min(n, Len(s)))
    ELSE SubSeq(s, 1, Max(Len(s) + n, 0))

\* JavaScript's Array.from(new Set(res)): first occurrences, in order.
RECURSIVE ArrayFromSet(_, _)
ArrayFromSet(res, acc) ==
    IF res = <<>> THEN acc
    ELSE ArrayFromSet(Tail(res),
                      IF Head(res) \in Range(acc) THEN acc ELSE Append(acc, Head(res)))

\* The identifiers of `out` that `order` does not hold yet, appended in order.
RECURSIVE Discover(_, _)
Discover(order, out) ==
    IF out = <<>> THEN order
    ELSE Discover(IF Head(out) \in Range(order) THEN order ELSE Append(order, Head(out)),
                  Tail(out))

(***************************************************************************)
(* Before either script has opened anything.                               *)
(***************************************************************************)
InitOpening ==
    /\ browser = "none"
    /\ open_why = "none"
    /\ strategy = 1
    /\ attempted = <<>>
    /\ loc = 0
    /\ attempt = 0
    /\ goto_calls = 0
    /\ last_goto = "none"
    /\ debug_logged = 0
    /\ png_files = 0
    /\ html_files = 0
    /\ root_lost = FALSE
    /\ interrupted = FALSE

(***************************************************************************)
(* scrape_followers.py                                                     *)
(***************************************************************************)
OpenFailures == {"nav_error", "login_redirect", "not_found", "exception"}

\* InitFollowers with prev_count = 0 in place of -1.
InitFollowersPrevZero ==
    /\ limit \in Limits
    /\ usernames = <<>>
    /\ seen = {}
    /\ prev_count = 0
    /\ attempts_no_change = 0
    /\ found = <<>>
    /\ returned = <<>>
    /\ results = <<>>
    /\ ret = 0 - 1
    /\ debug_calls = 0
    /\ extractions = 0
    /\ scrolls = 0
    /\ firstSeen = <<>>
    /\ firstFound = <<>>
    /\ fixed = TRUE

\* The locals of collect_usernames_from_followers_dialog (lines 192-198) and of
\* run_scrape as a session starts.
InitFollowers ==
    /\ limit \in Limits
    /\ usernames = <<>>
    /\ seen = {}
    /\ prev_count = 0 - 1
    /\ attempts_no_change = 0
    /\ found = <<>>
    /\ returned = <<>>
    /\ results = <<>>
    /\ ret = 0 - 1
    /\ debug_calls = 0
    /\ extractions = 0
    /\ scrolls = 0
    /\ firstSeen = <<>>
    /\ firstFound = <<>>
    /\ fixed = TRUE

\* What one call of save_debug_artifacts meets: all three steps work, or the
\* screenshot, page.content() or write_text raises.
DebugOutcomes == {"saved", "screenshot_fails", "content_fails", "write_fails"}

DebugState ==
    [calls |-> debug_calls, logged |-> debug_logged, png |-> png_files,
     html |-> html_files, raised |-> FALSE]

\* save_debug_artifacts with no handler around its three steps.
SaveDebugArtifactsNoHandler(outcome, st) ==
    [calls  |-> st.calls + 1,
     png    |-> st.png + (IF outcome = "screenshot_fails" THEN 0 ELSE 1),
     html   |-> st.html + (IF outcome = "saved" THEN 1 ELSE 0),
     logged |-> st.logged,
     raised |-> outcome # "saved"]

\* save_debug_artifacts (scrape_followers.py lines 49-59, scrape_profiles.py
\* lines 68-79): the steps run in order inside one try; the handler prints.
SaveDebugArtifacts(outcome, st) ==
    [calls  |-> st.calls + 1,
     png    |-> st.png + (IF outcome = "screenshot_fails" THEN 0 ELSE 1),
     html   |-> st.html + (IF outcome = "saved" THEN 1 ELSE 0),
     logged |-> st.logged + (IF outcome = "saved" THEN 0 ELSE 1),
     raised |-> FALSE]

\* The caller awaits save_debug_artifacts and goes on to `after` when it
\* returns; an exception leaving it would leave run_scrape too.
Capture(after) ==
    \E outcome \in DebugOutcomes :
       LET st == SaveDebugArtifacts(outcome, DebugState) IN
         /\ debug_calls' = st.calls
         /\ debug_logged' = st.logged
         /\ png_files' = st.png
         /\ html_files' = st.html
         /\ pc' = IF st.raised THEN "f_unhandled" ELSE after
         /\ error' = IF st.raised THEN "debug" ELSE "open"

\* run_scrape launches the browser (lines 348-373); open_followers_modal
\* loads the profile page (lines 128-139).
F_Navigate ==
    /\ script = "followers" /\ pc = "start"
    /\ browser' = "open"
    /\ \E outcome \in {"ok", "nav_error", "login_redirect"} :
          IF outcome = "ok"
          THEN /\ pc' = "f_resolve"
               /\ UNCHANGED open_why
          ELSE /\ pc' = "f_open_failed"
               /\ open_why' = outcome
    /\ UNCHANGED <<script, error, varsF, varsP, strategy, attempted, loc, attempt,
                   goto_calls, last_goto, varsD, varsH, varsW, varsN>>

\* The element a strategy settles on: `.first`, the first match in DOM order.
First(count) == 1

\* The lookup capturing before it returns None, as the handler of line 184 does.
NotFoundCaptures == "f_open_exception"

\* Lines 160-162: loc is None, print and return None.
NotFoundReturns == "f_open_failed"

\* The three lookups of lines 146-158, one per step: count() > 0 settles on the
\* strategy's first element, 0 passes to the next strategy, and after the third
\* loc is None (lines 160-162).  A count() that raises goes to line 184, and
\* so does the call `anchors.first()` when the library has `first` as an
\* attribute (as pengikis.py line 141 reads it) and not as a method.
F_Strategy ==
    /\ script = "followers" /\ pc = "f_resolve"
    /\ \E outcome \in {"match", "none", "raises"} :
          /\ attempted' = Append(attempted, outcome)
          /\ CASE outcome = "match" ->
                    \E count \in 1..MaxMatches, first_callable \in BOOLEAN :
                       IF first_callable
                       THEN /\ loc' = First(count)
                            /\ pc' = "f_click"
                            /\ UNCHANGED <<strategy, open_why>>
                       ELSE /\ open_why' = "exception"
                            /\ pc' = "f_open_exception"
                            /\ UNCHANGED <<strategy, loc>>
               [] outcome = "none" /\ strategy < Strategies ->
                    /\ strategy' = strategy + 1
                    /\ UNCHANGED <<pc, loc, open_why>>
               [] outcome = "none" /\ strategy = Strategies ->
                    /\ open_why' = "not_found"
                    /\ pc' = NotFoundReturns
                    /\ UNCHANGED <<strategy, loc>>
               [] outcome = "raises" ->
                    /\ open_why' = "exception"
                    /\ pc' = "f_open_exception"
                    /\ UNCHANGED <<strategy, loc>>
    /\ UNCHANGED <<script, error, varsF, varsP, browser, attempt, goto_calls, last_goto,
                   varsD, varsH, varsW, varsN>>

\* Lines 164-183 after a match: click(), dialog.wait_for() and the
\* search for the scrollable element all return; the function returns the
\* selector, and its locals are gone.
F_OpenModal ==
    /\ script = "followers" /\ pc = "f_click"
    /\ pc' = "f_loop"
    /\ strategy' = 1
    /\ attempted' = <<>>
    /\ loc' = 0
    /\ UNCHANGED <<script, error, varsF, varsP, browser, open_why, attempt, goto_calls,
                   last_goto, varsD, varsH, varsW, varsN>>

\* One of those calls raises: line 184.
F_ClickRaises ==
    /\ script = "followers" /\ pc = "f_click"
    /\ open_why' = "exception"
    /\ pc' = "f_open_exception"
    /\ UNCHANGED <<script, error, varsF, varsP, browser, strategy, attempted, loc,
                   attempt, goto_calls, last_goto, varsD, varsH, varsW, varsN>>

\* The handler of lines 184-187: capture, then return None.
F_OpenException ==
    /\ script = "followers" /\ pc = "f_open_exception"
    /\ Capture("f_open_failed")
    /\ UNCHANGED <<script, limit, usernames, seen, prev_count, attempts_no_change,
                   found, returned, results, ret, extractions, scrolls, firstSeen,
                   firstFound, fixed, varsP, browser, varsO, varsH, varsW, varsN>>

\* run_scrape: open_followers_modal returned None (lines 377-381): capture,
\* close the browser, return 2.
F_OpenModalFails ==
    /\ script = "followers" /\ pc = "f_open_failed"
    /\ open_why \in OpenFailures
    /\ Capture("f_done")
    /\ IF pc' = "f_done"
       THEN ret' = 2 /\ browser' = "closed"
       ELSE UNCHANGED <<ret, browser>>
    /\ UNCHANGED <<script, limit, usernames, seen, prev_count, attempts_no_change,
                   found, returned, results, extractions, scrolls, firstSeen,
                   firstFound, fixed, varsP, varsO, varsH, varsW, varsN>>

\* while len(usernames) < limit: found = await page.evaluate(...)
F_Extract ==
    /\ script = "followers" /\ pc = "f_loop"
    /\ Len(usernames) < limit
    /\ \E res \in BoundedSeq(Ids, MaxFound) :
          /\ found' = ArrayFromSet(res, <<>>)
          /\ firstSeen' = Discover(firstSeen, found')
          /\ firstFound' = IF extractions = 0 THEN found' ELSE firstFound
          /\ fixed' = (fixed /\ (extractions = 0 \/ Range(found') = Range(firstFound)))
    /\ extractions' = extractions + 1
    /\ pc' = "f_merge"
    /\ UNCHANGED <<script, error, limit, usernames, seen, prev_count,
                   attempts_no_change, returned, results, ret, debug_calls, scrolls,
                   varsP, varsX, varsW, varsN>>

\* The evaluate call of line 202 raises: nothing in
\* collect_usernames_from_followers_dialog or run_scrape catches it.
F_ExtractRaises ==
    /\ script = "followers" /\ pc = "f_loop"
    /\ Len(usernames) < limit
    /\ extractions' = extractions + 1
    /\ error' = "extract"
    /\ pc' = "f_unhandled"
    /\ UNCHANGED <<script, limit, usernames, seen, prev_count, attempts_no_change,
                   found, returned, results, ret, debug_calls, scrolls, firstSeen,
                   firstFound, fixed, varsP, varsX, varsW, varsN>>

\* AppendUsername putting the new identifier first.
InsertUsernameFirst(list, u) == <<u>> \o list

\* Line 228: usernames.append(u)
AppendUsername(list, u) == Append(list, u)

\* RestAfterAppend without the break.
RestWithoutBreak(list, rest, lim) == rest

\* Lines 229-230: `if len(usernames) >= limit: break` leaves the rest of found.
RestAfterAppend(list, rest, lim) == IF Len(list) >= lim THEN <<>> ELSE rest

\* One pass of `for u in found` (lines 225-230).
F_Merge ==
    /\ script = "followers" /\ pc = "f_merge"
    /\ found # <<>>
    /\ LET u == Head(found) IN
         IF u \notin seen
         THEN /\ seen' = seen \cup {u}
              /\ usernames' = AppendUsername(usernames, u)
              /\ found' = RestAfterAppend(usernames', Tail(found), limit)
         ELSE /\ found' = Tail(found)
              /\ UNCHANGED <<seen, usernames>>
    /\ UNCHANGED <<script, pc, error, limit, prev_count, attempts_no_change, returned,
                   results, ret, debug_calls, extractions, scrolls, firstSeen,
                   firstFound, fixed, varsP, varsX, varsW, varsN>>

\* NextAttempts never counting an iteration.
NextAttemptsNeverCounts(len, prev, attempts) == 0

\* Lines 233-236: the counter goes up when the list is as long as before, and
\* back to 0 otherwise.
NextAttempts(len, prev, attempts) == IF len = prev THEN attempts + 1 ELSE 0

\* AfterCheck without the break of lines 243-244.
AfterCheckNoCapBreak(attempts, len, lim) ==
    IF attempts >= max_attempts_no_change THEN "f_collected" ELSE "f_scroll"

\* Lines 239-244: break on the plateau, break on the cap, else go on to scroll.
AfterCheck(attempts, len, lim) ==
    IF attempts >= max_attempts_no_change THEN "f_collected"
    ELSE IF len >= lim THEN "f_collected"
    ELSE "f_scroll"

\* Lines 232-244: the plateau counter and the two breaks.
F_Check ==
    /\ script = "followers" /\ pc = "f_merge"
    /\ found = <<>>
    /\ attempts_no_change' = NextAttempts(Len(usernames), prev_count, attempts_no_change)
    /\ prev_count' = Len(usernames)
    /\ pc' = AfterCheck(attempts_no_change', Len(usernames), limit)
    /\ UNCHANGED <<script, error, limit, usernames, seen, found, returned, results, ret,
                   debug_calls, extractions, scrolls, firstSeen, firstFound, fixed,
                   varsP, varsX, varsW, varsN>>

\* Lines 247-260: the scroll advance; False when the selector is gone.
F_Scroll ==
    /\ script = "followers" /\ pc = "f_scroll"
    /\ scrolls' = scrolls + 1
    /\ \E scrolled \in BOOLEAN :
          /\ pc' = IF scrolled THEN "f_loop" ELSE "f_collected"
          /\ root_lost' = ~scrolled
          /\ pause' = IF scrolled THEN SCROLL_PAUSE ELSE pause
    /\ UNCHANGED <<script, error, limit, usernames, seen, prev_count,
                   attempts_no_change, found, returned, results, ret, debug_calls,
                   extractions, firstSeen, firstFound, fixed, varsP, browser, varsO,
                   varsD, interrupted, no_growth_run, varsN>>

\* The evaluate call of line 247 raises.
F_ScrollRaises ==
    /\ script = "followers" /\ pc = "f_scroll"
    /\ scrolls' = scrolls + 1
    /\ error' = "scroll"
    /\ pc' = "f_unhandled"
    /\ UNCHANGED <<script, limit, usernames, seen, prev_count, attempts_no_change,
                   found, returned, results, ret, debug_calls, extractions, firstSeen,
                   firstFound, fixed, varsP, varsX, varsW, varsN>>

\* The while condition is false.
F_LoopExit ==
    /\ script = "followers" /\ pc = "f_loop"
    /\ ~(Len(usernames) < limit)
    /\ pc' = "f_collected"
    /\ UNCHANGED <<script, error, varsF, varsP, varsX, varsW, varsN>>

\* return usernames[:limit], and run_scrape's test of the list (lines 384-389):
\* an empty list is captured, the browser closed, 3 returned.
F_Return ==
    /\ script = "followers" /\ pc = "f_collected"
    /\ returned' = PySliceTo(usernames, limit)
    /\ IF returned' = <<>>
       THEN /\ \E outcome \in DebugOutcomes :
                  LET st == SaveDebugArtifacts(outcome, DebugState) IN
                    /\ debug_calls' = st.calls
                    /\ debug_logged' = st.logged
                    /\ png_files' = st.png
                    /\ html_files' = st.html
                    /\ pc' = IF st.raised THEN "f_unhandled" ELSE "f_done"
                    /\ error' = IF st.raised THEN "debug" ELSE error
                    /\ ret' = IF st.raised THEN ret ELSE 3
                    /\ browser' = IF st.raised THEN browser ELSE "closed"
       ELSE /\ pc' = "f_visit"
            /\ UNCHANGED <<debug_calls, ret, error, browser, varsD>>
    /\ UNCHANGED <<script, limit, usernames, seen, prev_count, attempts_no_change,
                   found, results, extractions, scrolls, firstSeen, firstFound, fixed,
                   varsP, varsO, varsH, varsW, varsN>>

\* F_Visit taking the usernames from the end of the list.
F_VisitLast ==
    /\ script = "followers" /\ pc = "f_visit"
    /\ Len(results) < Len(returned)
    /\ results' = Append(results, returned[Len(returned) - Len(results)])
    /\ UNCHANGED <<script, pc, error, limit, usernames, seen, prev_count,
                   attempts_no_change, found, returned, ret, debug_calls, extractions,
                   scrolls, firstSeen, firstFound, fixed, varsP, varsX, varsW, varsN>>

\* One pass of the loop over usernames (lines 395-405):
\* extract_profile_bio_and_private catches its own exceptions and returns a row.
F_Visit ==
    /\ script = "followers" /\ pc = "f_visit"
    /\ Len(results) < Len(returned)
    /\ results' = Append(results, returned[Len(results) + 1])
    /\ UNCHANGED <<script, pc, error, limit, usernames, seen, prev_count,
                   attempts_no_change, found, returned, ret, debug_calls, extractions,
                   scrolls, firstSeen, firstFound, fixed, varsP, varsX, varsW, varsN>>

\* write_csv(results), browser.close(), return 0.
F_Write ==
    /\ script = "followers" /\ pc = "f_visit"
    /\ Len(results) = Len(returned)
    /\ ret' = 0
    /\ browser' = "closed"
    /\ pc' = "f_done"
    /\ UNCHANGED <<script, error, limit, usernames, seen, prev_count,
                   attempts_no_change, found, returned, results, debug_calls,
                   extractions, scrolls, firstSeen, firstFound, fixed, varsP, varsO,
                   varsD, varsH, varsW, varsN>>

\* SIGINT while the harvest loop runs.  scrape_followers.py installs no
\* handler: asyncio.run cancels run_scrape (or KeyboardInterrupt is raised in
\* it), no except clause of the loop or of run_scrape matches, and run_scrape
\* is left without a return value.
F_Interrupt ==
    /\ script = "followers" /\ pc \in {"f_loop", "f_merge", "f_scroll"}
    /\ ~interrupted
    /\ interrupted' = TRUE
    /\ error' = "interrupt"
    /\ pc' = "f_unhandled"
    /\ UNCHANGED <<script, varsF, varsP, browser, varsO, varsD, root_lost, varsW,
                   varsN>>

\* __main__ (lines 423-434): without a target, usage_and_exit() exits with 1;
\* with one, run_scrape(target) is run.  FOLLOWERS_LIMIT is read at line 26
\* and not looked at.
F_Main ==
    /\ script = "followers" /\ pc = "init"
    /\ IF target = ""
       THEN pc' = "f_rejected" /\ ret' = 1
       ELSE pc' = "start" /\ UNCHANGED ret
    /\ UNCHANGED <<script, error, limit, usernames, seen, prev_count,
                   attempts_no_change, found, returned, results, debug_calls,
                   extractions, scrolls, firstSeen, firstFound, fixed, varsP, varsX,
                   varsW, varsN>>

NextFollowers ==
    \/ F_Main
    \/ F_Interrupt
    \/ F_Navigate
    \/ F_Strategy
    \/ F_OpenModal
    \/ F_ClickRaises
    \/ F_OpenException
    \/ F_OpenModalFails
    \/ F_Extract
    \/ F_ExtractRaises
    \/ F_Merge
    \/ F_Check
    \/ F_Scroll
    \/ F_ScrollRaises
    \/ F_LoopExit
    \/ F_Return
    \/ F_Visit
    \/ F_Write

(***************************************************************************)
(* pyinstadump/pengikis.py                                                 *)
(***************************************************************************)
\* A username is the string of its characters, so that href.replace('/', ''),
\* ' ' in username and len(username) are computed and not assumed.
LongUsername == [n \in 1..(MaxUsernameLen + 1) |-> "z"]
ValidHrefs == {<<"/", "a", "/">>, <<"/", "a">>, <<"/", "b", "/">>}
OtherHrefs == {<<"/", "x", " ", "y", "/">>, <<"/">> \o LongUsername \o <<"/">>}
Names == {"", "A"}

\* One list row as the browser shows it: "ok" has an href, "none" has no href
\* attribute (get_attribute gives None), "raises" makes the locator calls of
\* lines 379-380 raise.  nama is what the scan of the row's spans
\* (lines 388-413) ends with.
Containers ==
    [kind : {"ok"}, href : ValidHrefs, nama : Names]
        \cup [kind : {"ok"}, href : OtherHrefs, nama : {""}]
        \cup [kind : {"none", "raises"}, href : {<<>>}, nama : {""}]

\* href.replace('/', '')
HrefReplace(href) == SelectSeq(href, LAMBDA ch : ch # "/")

\* Line 415: username and username.strip() != "" and
\*           not (' ' in username or len(username) > 30)
ValidUsername(username) ==
    /\ username # <<>>
    /\ \E n \in 1..Len(username) : username[n] # " "
    /\ ~((\E n \in 1..Len(username) : username[n] = " ")
            \/ Len(username) > MaxUsernameLen)

\* EkstrakItem without username_terproses.add(username).
EkstrakItemForgetsSet(c, st) ==
    LET username == IF c.kind = "ok" THEN HrefReplace(c.href) ELSE <<>>
    IN  IF c.kind = "raises" \/ username = <<>>
        THEN st
        ELSE IF username \in st.terproses
        THEN [st EXCEPT !.rejected = @ \cup {<<username, c.nama>>}]
        ELSE IF ValidUsername(username)
        THEN [st EXCEPT !.hasil = Append(@, <<username, c.nama>>)]
        ELSE st

\* EkstrakItem storing the newest display name of a username it holds.
EkstrakItemLastWriteWins(c, st) ==
    LET username == IF c.kind = "ok" THEN HrefReplace(c.href) ELSE <<>>
    IN  IF c.kind = "raises" \/ username = <<>>
        THEN st
        ELSE IF username \in st.terproses
        THEN [st EXCEPT !.rejected = @ \cup {<<username, c.nama>>},
                        !.hasil = [n \in 1..Len(@) |->
                                      IF @[n][1] = username THEN <<username, c.nama>>
                                      ELSE @[n]]]
        ELSE IF ValidUsername(username)
        THEN [st EXCEPT !.hasil = Append(@, <<username, c.nama>>),
                        !.terproses = @ \cup {username}]
        ELSE st

\* One pass of the loop of lines 374-422 over the rows, on the row c, from
\* st = [hasil, terproses, rejected]; rejected is history: the rows that
\* line 385 skipped because their username was processed before.
EkstrakItem(c, st) ==
    LET username == IF c.kind = "ok" THEN HrefReplace(c.href) ELSE <<>>
    IN  IF c.kind = "raises" \/ username = <<>>
        THEN st
        ELSE IF username \in st.terproses
        THEN [st EXCEPT !.rejected = @ \cup {<<username, c.nama>>}]
        ELSE IF ValidUsername(username)
        THEN [st EXCEPT !.hasil = Append(@, <<username, c.nama>>),
                        !.terproses = @ \cup {username}]
        ELSE st

MaxCount == 1
Counts == (0..MaxCount) \cup {CountStop + 1}

InitPengikis ==
    /\ hasil_scrape = <<>>
    /\ username_terproses = {}
    /\ scroll_attempts = 0
    /\ previous_count = 0
    /\ current_count = 0
    /\ jumlah_container = 0
    /\ i = 0
    /\ call_site = "none"
    /\ rejected = {}
    /\ auto_saves = 0
    /\ closed = FALSE
    /\ hasil_returned = <<>>

\* _buka_browser (lines 84-92): launch, new_context, new_page.
P_BukaBrowser ==
    /\ script = "pengikis" /\ pc = "start"
    /\ browser' = "open"
    /\ pc' = "p_login"
    /\ UNCHANGED <<script, error, varsF, varsP, varsO, varsD, varsH, varsW, varsN>>

\* launch raises and self.browser stays None, or new_context or new_page
\* raises after self.browser was set.
P_BukaBrowserRaises ==
    /\ script = "pengikis" /\ pc = "start"
    /\ \E launched \in BOOLEAN : browser' = IF launched THEN "open" ELSE "none"
    /\ open_why' = "browser"
    /\ error' = "open"
    /\ pc' = "p_except"
    /\ UNCHANGED <<script, varsF, varsP, strategy, attempted, loc, attempt, goto_calls,
                   last_goto, varsD, varsH, varsW, varsN>>

\* The retry loop with the re-raise one attempt later.
LoginExhaustedLate(idx) == idx = LoginAttempts

\* Line 103: if attempt == 4
LoginExhausted(idx) == idx = LoginAttempts - 1

\* One pass of `for attempt in range(5)` in _login_dengan_cookie (lines
\* 97-105): goto returns and the loop is left, or it raises and the handler
\* re-raises on the last pass and sleeps on the others.  The function returns
\* when the loop is left or range(5) is used up.
P_LoginGoto ==
    /\ script = "pengikis" /\ pc = "p_login"
    /\ attempt < LoginAttempts
    /\ goto_calls' = goto_calls + 1
    /\ \E ok \in BOOLEAN :
          /\ last_goto' = IF ok THEN "ok" ELSE "failed"
          /\ IF ok
             THEN /\ pc' = "p_navigate"
                  /\ UNCHANGED <<attempt, open_why, error>>
             ELSE IF LoginExhausted(attempt)
             THEN /\ open_why' = "login"
                  /\ error' = "open"
                  /\ pc' = "p_except"
                  /\ UNCHANGED attempt
             ELSE /\ attempt' = attempt + 1
                  /\ pc' = IF attempt' < LoginAttempts THEN "p_login" ELSE "p_navigate"
                  /\ UNCHANGED <<open_why, error>>
    /\ UNCHANGED <<script, varsF, varsP, browser, strategy, attempted, loc, varsD,
                   varsH, varsW, varsN>>

\* _navigasi_ke_target (lines 109-125): goto returns; a header that does not
\* show is logged and passed over.  _login_dengan_cookie has returned, so its
\* index and the count of its calls are gone.
P_Navigasi ==
    /\ script = "pengikis" /\ pc = "p_navigate"
    /\ attempt' = 0
    /\ goto_calls' = 0
    /\ pc' = "p_resolve"
    /\ UNCHANGED <<script, error, varsF, varsP, browser, open_why, strategy, attempted,
                   loc, last_goto, varsD, varsH, varsW, varsN>>

\* The goto of line 113 raises.
P_NavigasiRaises ==
    /\ script = "pengikis" /\ pc = "p_navigate"
    /\ attempt' = 0
    /\ goto_calls' = 0
    /\ open_why' = "navigate"
    /\ error' = "open"
    /\ pc' = "p_except"
    /\ UNCHANGED <<script, varsF, varsP, browser, strategy, attempted, loc, last_goto,
                   varsD, varsH, varsW, varsN>>

\* _buka_popup_daftar going on to wait for the dialog whatever `clicked` is.
AfterSelectorsNoRaise(clicked) == "p_dialog"

\* Lines 154-158: raise when no selector was clicked, else wait for the dialog.
AfterSelectors(clicked) == IF clicked THEN "p_dialog" ELSE "p_except"

\* One pass of `for selector in link_selectors` (lines 138-152): the click on
\* the selector's first element returns and the loop is left, or the locator
\* or the click raises and the next selector is tried.
P_Selector ==
    /\ script = "pengikis" /\ pc = "p_resolve"
    /\ \E outcome \in {"match", "raises"} :
          /\ attempted' = Append(attempted, outcome)
          /\ CASE outcome = "match" ->
                    /\ \E count \in 1..MaxMatches : loc' = First(count)
                    /\ pc' = AfterSelectors(TRUE)
                    /\ UNCHANGED <<strategy, open_why, error>>
               [] outcome = "raises" /\ strategy < Strategies ->
                    /\ strategy' = strategy + 1
                    /\ UNCHANGED <<pc, loc, open_why, error>>
               [] outcome = "raises" /\ strategy = Strategies ->
                    /\ open_why' = "selectors"
                    /\ error' = "open"
                    /\ pc' = AfterSelectors(FALSE)
                    /\ UNCHANGED <<strategy, loc>>
    /\ UNCHANGED <<script, varsF, varsP, browser, attempt, goto_calls, last_goto, varsD,
                   varsH, varsW, varsN>>

\* The dialog appears (lines 159-161), _buka_popup_daftar returns and
\* _gulir_dan_muat_data sets its locals (lines 180-184).
P_Open ==
    /\ script = "pengikis" /\ pc = "p_dialog"
    /\ scroll_attempts' = 0
    /\ previous_count' = 0
    /\ username_terproses' = {}
    /\ strategy' = 1
    /\ attempted' = <<>>
    /\ loc' = 0
    /\ pc' = "p_scroll"
    /\ UNCHANGED <<script, error, varsF, hasil_scrape, current_count, jumlah_container,
                   i, call_site, rejected, auto_saves, closed, hasil_returned, browser,
                   open_why, attempt, goto_calls, last_goto, varsD, varsH, varsW,
                   varsN>>

\* The dialog does not appear within its timeout (lines 162-164).
P_OpenFails ==
    /\ script = "pengikis" /\ pc = "p_dialog"
    /\ open_why' = IF open_why = "none" THEN "dialog" ELSE open_why
    /\ error' = "open"
    /\ pc' = "p_except"
    /\ UNCHANGED <<script, varsF, varsP, browser, strategy, attempted, loc, attempt,
                   goto_calls, last_goto, varsD, varsH, varsW, varsN>>

\* _ekstrak_data_real_time is entered from `site` (lines 366-372): the rows are
\* counted; a locator call that raises here goes to the handler of line 424
\* and leaves the call with no row read, as a count of 0 does.
EkstrakCall(site) ==
    /\ \E n \in 0..MaxContainers : jumlah_container' = n
    /\ i' = 0
    /\ rejected' = {}
    /\ call_site' = site
    /\ pc' = "p_ekstrak"

\* The scroll loop with no ceiling.
\* Line 224: time.sleep(random.uniform(2, 4)), in tenths of a second.
MinPause == 20
MaxPause == 40

\* The waits random.uniform(2, 4) can give: the two ends of its interval.
PauseChoices == {MinPause, MaxPause}

LoopConditionNoCeiling == TRUE

\* Line 186: while scroll_attempts < max_scrolls
LoopCondition == scroll_attempts < max_scrolls

\* An iteration of the scroll loop in which the count went up, as far as the
\* call of line 230 (lines 186-230).  In every iteration, what the scroll block
\* of lines 187-219 raises is logged at line 222 and changes nothing.
P_IterGrow ==
    /\ script = "pengikis" /\ pc = "p_scroll"
    /\ LoopCondition
    /\ \E cnt \in Counts : cnt > previous_count /\ current_count' = cnt
    /\ pause' \in PauseChoices
    /\ no_growth_run' = 0
    /\ EkstrakCall("loop")
    /\ UNCHANGED <<script, error, varsF, hasil_scrape, username_terproses,
                   scroll_attempts, previous_count, auto_saves, closed, hasil_returned,
                   varsX, varsN>>

\* The rest of that iteration, after the call returned (lines 232-265).
P_IterGrowEnd ==
    /\ script = "pengikis" /\ pc = "p_ekstrak" /\ call_site = "loop"
    /\ i = jumlah_container
    /\ previous_count' = current_count
    /\ scroll_attempts' = scroll_attempts + 1
    /\ pc' = IF current_count > CountStop THEN "p_post" ELSE "p_scroll"
    /\ UNCHANGED <<script, error, varsF, hasil_scrape, username_terproses,
                   current_count, jumlah_container, i, call_site, rejected, auto_saves,
                   closed, hasil_returned, varsX, varsW, varsN>>

\* One row of the extraction (lines 374-422).
P_EkstrakItem ==
    /\ script = "pengikis" /\ pc = "p_ekstrak"
    /\ i < jumlah_container
    /\ \E c \in Containers :
          LET st == EkstrakItem(c, [hasil |-> hasil_scrape,
                                    terproses |-> username_terproses,
                                    rejected |-> rejected])
          IN  /\ hasil_scrape' = st.hasil
              /\ username_terproses' = st.terproses
              /\ rejected' = st.rejected
    /\ i' = i + 1
    /\ UNCHANGED <<script, pc, error, varsF, scroll_attempts, previous_count,
                   current_count, jumlah_container, call_site, auto_saves, closed,
                   hasil_returned, varsX, varsW, varsN>>

\* PlateauBreak one iteration later.
PlateauBreakLate(attempts) == attempts >= PlateauAttempts + 1

\* Lines 234 and 254-255: `if scroll_attempts < 5` fails in the branch of an
\* unchanged count, and the loop breaks.
PlateauBreak(attempts) == attempts >= PlateauAttempts

\* An iteration in which the count is the one of the iteration before.
P_IterSame ==
    /\ script = "pengikis" /\ pc = "p_scroll"
    /\ LoopCondition
    /\ pause' \in PauseChoices
    /\ current_count' = previous_count
    /\ no_growth_run' = no_growth_run + 1
    /\ IF PlateauBreak(scroll_attempts)
       THEN /\ pc' = "p_post"
            /\ UNCHANGED scroll_attempts
       ELSE /\ scroll_attempts' = scroll_attempts + 1
            /\ pc' = "p_scroll"
    /\ UNCHANGED <<script, error, varsF, hasil_scrape, username_terproses,
                   previous_count, jumlah_container, i, call_site, rejected, auto_saves,
                   closed, hasil_returned, varsX, varsN>>

\* LoweredCount keeping the count of the iteration before.
LoweredCountKept(prev, cnt) == prev

\* Line 257, reached with a lower count: previous_count = current_count
LoweredCount(prev, cnt) == cnt

\* An iteration in which the count went down.
P_IterShrink ==
    /\ script = "pengikis" /\ pc = "p_scroll"
    /\ LoopCondition
    /\ \E cnt \in Counts :
          /\ cnt < previous_count
          /\ current_count' = cnt
          /\ pc' = IF cnt > CountStop THEN "p_post" ELSE "p_scroll"
    /\ pause' \in PauseChoices
    /\ no_growth_run' = 0
    /\ previous_count' = LoweredCount(previous_count, current_count')
    /\ scroll_attempts' = scroll_attempts + 1
    /\ UNCHANGED <<script, error, varsF, hasil_scrape, username_terproses,
                   jumlah_container, i, call_site, rejected, auto_saves, closed,
                   hasil_returned, varsX, varsN>>

\* locator(...).count() of line 226 raises: it is outside the try of line 187,
\* so the exception leaves _gulir_dan_muat_data for jalankan's handlers.
P_CountRaises ==
    /\ script = "pengikis" /\ pc = "p_scroll"
    /\ LoopCondition
    /\ error' = "count"
    /\ pause' = 0 /\ no_growth_run' = 0
    /\ pc' = "p_except"
    /\ UNCHANGED <<script, varsF, hasil_scrape, username_terproses, scroll_attempts,
                   previous_count, current_count, jumlah_container, i, call_site,
                   rejected, auto_saves, closed, hasil_returned, varsX, varsN>>

\* The while condition is false.
P_LoopExit ==
    /\ script = "pengikis" /\ pc = "p_scroll"
    /\ ~LoopCondition
    /\ pc' = "p_post"
    /\ UNCHANGED <<script, error, varsF, varsP, varsX, varsW, varsN>>

\* P_PostExtract handing the extraction a fresh set instead of the loop's.
P_PostExtractFreshSet ==
    /\ script = "pengikis" /\ pc = "p_post"
    /\ EkstrakCall("post")
    /\ username_terproses' = {}
    /\ pause' = 0 /\ no_growth_run' = 0
    /\ UNCHANGED <<script, error, varsF, hasil_scrape, scroll_attempts,
                   previous_count, current_count, auto_saves, closed, hasil_returned,
                   varsX, varsN>>

\* Lines 267-272: the loop is over; sleep(5), then the extraction after the loop,
\* with the loop's set.
P_PostExtract ==
    /\ script = "pengikis" /\ pc = "p_post"
    /\ EkstrakCall("post")
    /\ pause' = 0 /\ no_growth_run' = 0
    /\ UNCHANGED <<script, error, varsF, hasil_scrape, username_terproses,
                   scroll_attempts, previous_count, current_count, auto_saves, closed,
                   hasil_returned, varsX, varsN>>

\* That call returns, and so does _gulir_dan_muat_data.
P_PostExtractEnd ==
    /\ script = "pengikis" /\ pc = "p_ekstrak" /\ call_site = "post"
    /\ i = jumlah_container
    /\ pc' = "p_final"
    /\ UNCHANGED <<script, error, varsF, varsP, varsX, varsW, varsN>>

\* P_EkstrakDataPengguna extracting with its fresh set whatever is held.
P_EkstrakDataPenggunaAlways ==
    /\ script = "pengikis" /\ pc = "p_final"
    /\ username_terproses' = {}
    /\ EkstrakCall("final")
    /\ UNCHANGED <<script, error, varsF, hasil_scrape, scroll_attempts, previous_count,
                   current_count, auto_saves, closed, hasil_returned, varsX, varsW, varsN>>

\* _ekstrak_data_pengguna (lines 274-286): a fresh set, only when nothing is held.
P_EkstrakDataPengguna ==
    /\ script = "pengikis" /\ pc = "p_final"
    /\ IF hasil_scrape # <<>>
       THEN /\ pc' = "p_finally"
            /\ UNCHANGED <<username_terproses, jumlah_container, i, call_site,
                           rejected>>
       ELSE /\ username_terproses' = {}
            /\ EkstrakCall("final")
    /\ UNCHANGED <<script, error, varsF, hasil_scrape, scroll_attempts, previous_count,
                   current_count, auto_saves, closed, hasil_returned, varsX, varsW,
                   varsN>>

\* That call returns, and so does _ekstrak_data_pengguna.
P_EkstrakDataPenggunaEnd ==
    /\ script = "pengikis" /\ pc = "p_ekstrak" /\ call_site = "final"
    /\ i = jumlah_container
    /\ pc' = "p_finally"
    /\ UNCHANGED <<script, error, varsF, varsP, varsX, varsW, varsN>>

\* self.output_file: None from __init__ (line 35), or the path a call of
\* set_output_file stored (lines 308-316); a path is a sequence of characters.
NoFile == <<>>
OutputFiles == {NoFile, <<"o">>, <<"o", ".", "b", ".", "c">>}

\* The position of the last "." of a path, 0 without one.
LastDot(path) ==
    LET dots == {k \in 1..Len(path) : path[k] = "."}
    IN  IF dots = {} THEN 0 ELSE CHOOSE k \in dots : \A m \in dots : m <= k

\* Lines 332-336: parts = output_file.rsplit('.', 1); with two parts
\* f"{parts[0]}_partial.{parts[1]}", else f"{output_file}_partial".
PartialName(path) ==
    LET k == LastDot(path)
    IN  IF k > 0
        THEN SubSeq(path, 1, k - 1) \o <<"_partial", ".">> \o SubSeq(path, k + 1, Len(path))
        ELSE path \o <<"_partial">>

\* AutoSaveData without the test of line 331.
AutoSaveDataAlways(hasil, path, io_ok) ==
    [hasil |-> hasil, file |-> IF io_ok THEN PartialName(path) ELSE NoFile]

\* _auto_save_data (lines 327-351): with records and a path it writes the
\* header and the records to the partial file, and an IOError is logged;
\* otherwise it only logs.  hasil_scrape is read, never assigned.
AutoSaveData(hasil, path, io_ok) ==
    [hasil |-> hasil,
     file  |-> IF hasil # <<>> /\ path # NoFile /\ io_ok
               THEN PartialName(path) ELSE NoFile]

\* jalankan's except branches for PlaywrightError and Exception (lines 71-78):
\* log and _auto_save_data.  self.output_file is read here and nowhere else,
\* so what the caller stored in it before jalankan is drawn here.
P_Except ==
    /\ script = "pengikis" /\ pc = "p_except"
    /\ auto_saves' = auto_saves + 1
    /\ \E path \in OutputFiles, io_ok \in BOOLEAN :
          LET st == AutoSaveData(hasil_scrape, path, io_ok)
          IN  /\ hasil_scrape' = st.hasil
              /\ partial_file' = st.file
    /\ pc' = "p_finally"
    /\ UNCHANGED <<script, error, varsF, username_terproses,
                   scroll_attempts, previous_count, current_count, jumlah_container, i,
                   call_site, rejected, closed, hasil_returned, varsX, varsW, target,
                   mode_kikis, varsT, varsR, varsS>>

\* A KeyboardInterrupt raised in a step of jalankan, here in the scroll loop
\* (SIGINT itself goes to _signal_handler, see P_Interrupt).  No `except
\* Exception` catches it; lines 69-70 raise it again, the finally clause calls
\* tutup (lines 79-80), and jalankan is left without a return value.
P_KeyboardInterrupt ==
    /\ script = "pengikis" /\ pc = "p_scroll"
    /\ LoopCondition
    /\ ~interrupted
    /\ interrupted' = TRUE
    /\ error' = "keyboard_interrupt"
    /\ closed' = TRUE
    /\ browser' = IF browser = "open" THEN "closed" ELSE browser
    /\ pause' = 0 /\ no_growth_run' = 0
    /\ pc' = "p_raised"
    /\ UNCHANGED <<script, varsF, hasil_scrape, username_terproses, scroll_attempts,
                   previous_count, current_count, jumlah_container, i, call_site,
                   rejected, auto_saves, hasil_returned, varsO, varsD, root_lost, varsN>>

\* finally: self.tutup(), which closes the browser if there is one;
\* return self.hasil_scrape
P_Finally ==
    /\ script = "pengikis" /\ pc = "p_finally"
    /\ closed' = TRUE
    /\ browser' = IF browser = "open" THEN "closed" ELSE browser
    /\ hasil_returned' = hasil_scrape
    /\ pc' = "p_done"
    /\ UNCHANGED <<script, error, varsF, hasil_scrape, username_terproses,
                   scroll_attempts, previous_count, current_count, jumlah_container, i,
                   call_site, rejected, auto_saves, varsO, varsD, varsH, varsW, varsN>>

\* SIGINT between two counts of the scroll loop.  __init__ registers
\* self._signal_handler (line 42), which takes no signum and frame (line 318):
\* the call made for the signal raises TypeError where the loop was
\* interrupted.  Inside the try of lines 187-222 the handler of line 221 logs it
\* and the iteration goes on; in the sleep of line 224 or the count of line 226
\* it leaves _gulir_dan_muat_data for the `except Exception` of jalankan.
P_Interrupt ==
    /\ script = "pengikis" /\ pc = "p_scroll"
    /\ LoopCondition
    /\ ~interrupted
    /\ interrupted' = TRUE
    /\ \E inside_try \in BOOLEAN :
          IF inside_try
          THEN UNCHANGED <<pc, error, varsW>>
          ELSE /\ pc' = "p_except" /\ error' = "interrupt"
               /\ pause' = 0 /\ no_growth_run' = 0
    /\ UNCHANGED <<script, varsF, varsP, browser, varsO, varsD, root_lost,
                   varsN>>

\* __init__ (lines 31-42): _konfigurasi_mode raises ValueError for a mode that
\* is not a key of mode_map, and no object is made; target_username is stored
\* as given.
P_KonfigurasiMode ==
    /\ script = "pengikis" /\ pc = "init"
    /\ pc' = IF mode_kikis \in ModeMap THEN "start" ELSE "p_rejected"
    /\ UNCHANGED <<script, error, varsF, varsP, varsX, varsW, varsN>>

NextPengikis ==
    \/ P_KeyboardInterrupt
    \/ P_KonfigurasiMode
    \/ P_Interrupt
    \/ P_BukaBrowser
    \/ P_BukaBrowserRaises
    \/ P_LoginGoto
    \/ P_Navigasi
    \/ P_NavigasiRaises
    \/ P_Selector
    \/ P_Open
    \/ P_OpenFails
    \/ P_IterGrow
    \/ P_IterGrowEnd
    \/ P_EkstrakItem
    \/ P_IterSame
    \/ P_IterShrink
    \/ P_CountRaises
    \/ P_LoopExit
    \/ P_PostExtract
    \/ P_PostExtractEnd
    \/ P_EkstrakDataPengguna
    \/ P_EkstrakDataPenggunaEnd
    \/ P_Except
    \/ P_Finally

(***************************************************************************)
(* The session.                                                            *)
(***************************************************************************)
\* The target descriptor: TARGET_USERNAME or argv[1] of scrape_followers.py,
\* which has one list only (FOLLOWERS_LIMIT is `limit`); the username, here
\* always one, and the mode given to PengikisInstagram.
InitTarget ==
    /\ script = "followers" => (target \in Targets /\ mode_kikis = "followers")
    /\ script = "pengikis" => (target = "x" /\ mode_kikis \in Modes)
    /\ script \notin {"followers", "pengikis"} =>
           (target = "x" /\ mode_kikis = "followers")

\* No auto-save was made.
InitAutoSave == partial_file = NoFile

\* No wait was made yet.
InitWaits ==
    /\ pause = 0
    /\ no_growth_run = 0

\* ---------------------------------------------------------------------------
\* Two sessions for different subjects in one process: two PengikisInstagram
\* objects ("two_pengikis"), or two run_scrape coroutines ("two_followers").
\* ---------------------------------------------------------------------------

Sessions == {1, 2}

\* The identifier the list of each subject shows.
SubjectId(s) == IF s = 1 THEN "a" ELSE "c"

\* The rows each session of the pair may collect.
MaxHeld == 1

InitTwo ==
    /\ t_phase = [s \in Sessions |-> "none"]
    /\ t_held = [s \in Sessions |-> <<>>]
    /\ t_result = [s \in Sessions |-> <<>>]
    /\ sigint_handler = 0
    /\ sigint_called = 0
    /\ results_csv = <<>>

\* The process is entered.
T_Enter ==
    /\ script \in {"two_pengikis", "two_followers"} /\ pc = "init"
    /\ pc' = "t_run"
    /\ UNCHANGED <<script, error, varsF, varsP, varsX, varsW, varsN, varsA>>

\* PengikisInstagram.__init__ (lines 31-42): the object gets its own
\* hasil_scrape, and signal.signal makes its _signal_handler the handler of
\* SIGINT for the whole process.
T_Construct(s) ==
    /\ script = "two_pengikis" /\ pc = "t_run"
    /\ t_phase[s] = "none"
    /\ t_phase' = [t_phase EXCEPT ![s] = "running"]
    /\ t_held' = [t_held EXCEPT ![s] = <<>>]
    /\ sigint_handler' = s
    /\ UNCHANGED <<script, pc, error, varsF, varsP, varsX, varsW, target, mode_kikis,
                   t_result, sigint_called, results_csv, varsR, varsS, varsA>>

\* run_scrape is called (line 339): usernames and results are its locals.
T_RunScrape(s) ==
    /\ script = "two_followers" /\ pc = "t_run"
    /\ t_phase[s] = "none"
    /\ t_phase' = [t_phase EXCEPT ![s] = "running"]
    /\ UNCHANGED <<script, pc, error, varsF, varsP, varsX, varsW, target, mode_kikis,
                   t_held, t_result, sigint_handler, sigint_called, results_csv, varsR,
                   varsS, varsA>>

\* A row of the session's subject is added to its list (pengikis.py line 419,
\* scrape_followers.py line 400).
T_Collect(s) ==
    /\ pc = "t_run"
    /\ t_phase[s] = "running"
    /\ Len(t_held[s]) < MaxHeld
    /\ t_held' = [t_held EXCEPT ![s] = Append(@, SubjectId(s))]
    /\ UNCHANGED <<script, pc, error, varsF, varsP, varsX, varsW, target, mode_kikis,
                   t_phase, t_result, sigint_handler, sigint_called, results_csv, varsR,
                   varsS, varsA>>

\* SIGINT while objects are at work: Python calls the one handler the process
\* holds.
T_Sigint ==
    /\ script = "two_pengikis" /\ pc = "t_run"
    /\ sigint_handler # 0 /\ sigint_called = 0
    /\ \E s \in Sessions : t_phase[s] = "running"
    /\ sigint_called' = sigint_handler
    /\ UNCHANGED <<script, pc, error, varsF, varsP, varsX, varsW, target, mode_kikis,
                   t_phase, t_held, t_result, sigint_handler, results_csv, varsR, varsS,
                   varsA>>

\* jalankan returns self.hasil_scrape (line 82).
T_Return(s) ==
    /\ script = "two_pengikis" /\ pc = "t_run"
    /\ t_phase[s] = "running"
    /\ t_phase' = [t_phase EXCEPT ![s] = "done"]
    /\ t_result' = [t_result EXCEPT ![s] = t_held[s]]
    /\ UNCHANGED <<script, pc, error, varsF, varsP, varsX, varsW, target, mode_kikis,
                   t_held, sigint_handler, sigint_called, results_csv, varsR, varsS,
                   varsA>>

\* run_scrape, lines 407-409: write_csv(results, DATA_DIR / "results.csv");
\* write_csv (lines 36-46) opens the path with "w" unless there is no row.
T_WriteCsv(s) ==
    /\ script = "two_followers" /\ pc = "t_run"
    /\ t_phase[s] = "running"
    /\ t_phase' = [t_phase EXCEPT ![s] = "done"]
    /\ t_result' = [t_result EXCEPT ![s] = t_held[s]]
    /\ results_csv' = IF t_held[s] = <<>> THEN results_csv ELSE t_held[s]
    /\ UNCHANGED <<script, pc, error, varsF, varsP, varsX, varsW, target, mode_kikis,
                   t_held, sigint_handler, sigint_called, varsR, varsS, varsA>>

\* Both sessions are over.
T_Exit ==
    /\ pc = "t_run"
    /\ \A s \in Sessions : t_phase[s] = "done"
    /\ pc' = "t_done"
    /\ UNCHANGED <<script, error, varsF, varsP, varsX, varsW, varsN, varsA>>

NextTwo ==
    \/ T_Enter
    \/ \E s \in Sessions : T_Construct(s)
    \/ \E s \in Sessions : T_RunScrape(s)
    \/ \E s \in Sessions : T_Collect(s)
    \/ T_Sigint
    \/ \E s \in Sessions : T_Return(s)
    \/ \E s \in Sessions : T_WriteCsv(s)
    \/ T_Exit

\* ---------------------------------------------------------------------------
\* run_scraper.py: main.
\* ---------------------------------------------------------------------------

\* No code yet.
NoCode == 0 - 1000

\* Line 169: sys.exit(20)
CookieFailureCode == 20

\* Line 186: sys.exit(21)
ScraperMissingCode == 21

\* The signals that can end the scraper (SIGINT, SIGKILL): subprocess.call
\* then returns the signal's number, negated.
Signals == {2, 9}

\* What subprocess.call can return for scrape_profiles.py: the exit codes of
\* a Python script that never calls sys.exit (0, and 1 for an exception that
\* nothing caught), and a negated signal.
ReturnCodes == {0, 1} \cup {0 - n : n \in Signals}

\* sys.exit with another code than the one given.
SysExitOne(code) == 1

\* sys.exit(code): the exit status of a process is the low eight bits.
SysExit(code) == code % 256

InitRunScraper ==
    /\ diag_ok = FALSE
    /\ scraper_launched = FALSE
    /\ rc = NoCode
    /\ exit_status = NoCode

\* Lines 166-169: the cookie files are written, or main exits with 20.
R_LoadSecret ==
    /\ script = "run_scraper" /\ pc = "init"
    /\ \E written \in BOOLEAN :
          IF written
          THEN pc' = "r_diagnose" /\ UNCHANGED exit_status
          ELSE pc' = "r_done" /\ exit_status' = SysExit(CookieFailureCode)
    /\ UNCHANGED <<script, error, varsF, varsP, varsX, varsW, target, mode_kikis, varsT,
                   diag_ok, scraper_launched, rc, varsS, varsA>>

\* R_DiagnosticFetch ending main when the fetch did not pass.
R_DiagnosticFetchAborts ==
    /\ script = "run_scraper" /\ pc = "r_diagnose"
    /\ \E outcome \in {"passed", "not_passed", "raises"} :
          /\ diag_ok' = (outcome = "passed")
          /\ pc' = IF outcome = "passed" THEN "r_scraper" ELSE "r_done"
          /\ exit_status' = IF outcome = "passed" THEN exit_status ELSE SysExit(1)
    /\ UNCHANGED <<script, error, varsF, varsP, varsX, varsW, target, mode_kikis, varsT,
                   scraper_launched, rc, varsS, varsA>>

\* Lines 171-180: diagnostic_fetch returns, or raises and is caught; a fetch
\* that did not pass is only warned about.
R_DiagnosticFetch ==
    /\ script = "run_scraper" /\ pc = "r_diagnose"
    /\ \E outcome \in {"passed", "not_passed", "raises"} :
          diag_ok' = (outcome = "passed")
    /\ pc' = "r_scraper"
    /\ UNCHANGED <<script, error, varsF, varsP, varsX, varsW, target, mode_kikis, varsT,
                   scraper_launched, rc, exit_status, varsS, varsA>>

\* Lines 183-186: scrape_profiles.py is not there, and main exits with 21.
R_ScraperMissing ==
    /\ script = "run_scraper" /\ pc = "r_scraper"
    /\ exit_status' = SysExit(ScraperMissingCode)
    /\ pc' = "r_done"
    /\ UNCHANGED <<script, error, varsF, varsP, varsX, varsW, target, mode_kikis, varsT,
                   diag_ok, scraper_launched, rc, varsS, varsA>>

\* Lines 188-192: subprocess.call runs the scraper and main exits with what it
\* returned.
R_Call ==
    /\ script = "run_scraper" /\ pc = "r_scraper"
    /\ scraper_launched' = TRUE
    /\ \E code \in ReturnCodes :
          /\ rc' = code
          /\ exit_status' = SysExit(code)
    /\ pc' = "r_done"
    /\ UNCHANGED <<script, error, varsF, varsP, varsX, varsW, target, mode_kikis, varsT,
                   diag_ok, varsS, varsA>>

NextRunScraper ==
    \/ R_LoadSecret
    \/ R_DiagnosticFetch
    \/ R_ScraperMissing
    \/ R_Call

\* ---------------------------------------------------------------------------
\* scrape_profiles.py: main and scrape_profile.
\* ---------------------------------------------------------------------------

\* The usernames main may be given.
MaxUsernames == 2

\* What can happen in scrape_profile: every read succeeds; the page is the
\* login page (line 131); goto, or another call outside the inner handlers,
\* raises (line 295); every one of the layered reads of lines 147-284 raises
\* and is passed over by its own handler.
ProfileOutcomes == {"ok", "login", "load_raises", "parse_fails"}

\* scrape_profile (lines 112-303): the error field of the record it returns,
\* and the calls of save_debug_artifacts it makes.
ScrapeProfile(username, outcome) ==
    [row |-> [username |-> username,
              error |-> CASE outcome = "login" -> "login required"
                          [] outcome = "load_raises" -> "exception"
                          [] OTHER -> ""],
     captures |-> IF outcome \in {"login", "load_raises"} THEN 1 ELSE 0]

InitProfiles ==
    /\ s_usernames \in (IF script = "profiles"
                         THEN BoundedSeq({"a", "b"}, MaxUsernames)
                         ELSE {<<>>})
    /\ s_rows = <<>>
    /\ s_outcomes = <<>>
    /\ s_captures = <<>>

\* main, lines 307-329: cookies and usernames are loaded (a RuntimeError of
\* load_cookies_from_env or load_usernames ends main), the browser is
\* launched and the header row is written.
S_Main ==
    /\ script = "profiles" /\ pc = "init"
    /\ \E loaded \in BOOLEAN :
          pc' = IF loaded THEN "s_loop" ELSE "s_unhandled"
    /\ UNCHANGED <<script, error, varsF, varsP, varsX, varsW, varsN, varsA>>

\* One pass of `for uname in usernames`, lines 331-336: scrape_profile and the
\* row; writing the row may raise.
S_Iteration ==
    /\ script = "profiles" /\ pc = "s_loop"
    /\ Len(s_rows) < Len(s_usernames)
    /\ \E outcome \in ProfileOutcomes, written \in BOOLEAN :
          LET res == ScrapeProfile(s_usernames[Len(s_rows) + 1], outcome)
          IN  /\ s_outcomes' = Append(s_outcomes, outcome)
              /\ s_captures' = Append(s_captures, res.captures)
              /\ s_rows' = IF written THEN Append(s_rows, res.row) ELSE s_rows
              /\ pc' = IF written THEN "s_loop" ELSE "s_except"
    /\ UNCHANGED <<script, error, varsF, varsP, varsX, varsW, target, mode_kikis, varsT,
                   varsR, s_usernames, varsA>>

\* The handler of that pass, lines 337-343: save_debug_artifacts, and a row
\* holding the username and the error, whose writing nothing guards.
S_Except ==
    /\ script = "profiles" /\ pc = "s_except"
    /\ s_captures' = [s_captures EXCEPT ![Len(s_captures)] = @ + 1]
    /\ \E rewritten \in BOOLEAN :
          IF rewritten
          THEN /\ s_rows' = Append(s_rows, [username |-> s_usernames[Len(s_rows) + 1],
                                            error |-> "unhandled error"])
               /\ pc' = "s_loop"
          ELSE /\ pc' = "s_unhandled"
               /\ UNCHANGED s_rows
    /\ UNCHANGED <<script, error, varsF, varsP, varsX, varsW, target, mode_kikis, varsT,
                   varsR, s_usernames, s_outcomes, varsA>>

\* Lines 345-346: the loop is over, the browser is closed.
S_Close ==
    /\ script = "profiles" /\ pc = "s_loop"
    /\ Len(s_rows) = Len(s_usernames)
    /\ pc' = "s_done"
    /\ UNCHANGED <<script, error, varsF, varsP, varsX, varsW, varsN, varsA>>

NextProfiles ==
    \/ S_Main
    \/ S_Iteration
    \/ S_Except
    \/ S_Close

Init ==
    /\ script \in {"followers", "pengikis", "two_pengikis", "two_followers",
                   "run_scraper", "profiles"}
    /\ pc = "init"
    /\ error = "none"
    /\ InitFollowers
    /\ script # "followers" => limit = 0
    /\ InitPengikis
    /\ InitOpening
    /\ InitWaits
    /\ InitTarget
    /\ InitTwo
    /\ InitRunScraper
    /\ InitProfiles
    /\ InitAutoSave

Next ==
    NextFollowers \/ NextPengikis \/ NextTwo \/ NextRunScraper \/ NextProfiles

Spec == Init /\ [][Next]_vars

\* Every call the scripts make returns or raises, so a session that can take a
\* step takes one.
FairSpec == Spec /\ WF_vars(Next)

\* The sessions of scrape_followers.py alone, each step of which is taken in
\* the end: asyncio.run drives run_scrape until it returns or raises.
FairFollowers == Init /\ [][NextFollowers]_vars /\ WF_vars(NextFollowers)

(***************************************************************************)
(* Properties.                                                             *)
(***************************************************************************)
Identifiers(hasil) == [n \in 1..Len(hasil) |-> hasil[n][1]]
Stored(hasil) == Range(Identifiers(hasil))
NamesOf(hasil, u) == {hasil[n][2] : n \in {m \in 1..Len(hasil) : hasil[m][1] = u}}
Take(s, n) == SubSeq(s, 1, Min(n, Len(s)))
FollowersEnded == pc \in {"f_visit", "f_done"} /\ ret # 2

\* C1: at every point of a session the accumulator (usernames; hasil_scrape),
\* and the list handed back, holds each identifier at most once.
C1_NoDuplicateIdentifiers ==
    /\ NoDuplicates(usernames)
    /\ NoDuplicates(returned)
    /\ NoDuplicates(Identifiers(hasil_scrape))
    /\ NoDuplicates(Identifiers(hasil_returned))

\* An extraction of pengikis.py met a username it had processed before, skipped
\* it, and the session ended with two records.
C1_Witness ==
    /\ script = "pengikis" /\ pc = "p_done"
    /\ rejected # {}
    /\ Len(hasil_returned) = 2

\* C2: with a cap limit >= 0 the accumulator of
\* collect_usernames_from_followers_dialog never holds more than limit
\* identifiers, between two passes of the merge loop included, and neither
\* does the list it returns.
C2_CapRespected ==
    (script = "followers" /\ limit >= 0) =>
        (Len(usernames) <= limit /\ Len(returned) <= limit)

\* The extractor had output more identifiers than the cap admits, and the
\* merge loop stopped with the accumulator at the cap.
C2_Witness ==
    /\ script = "followers" /\ pc = "f_merge"
    /\ limit >= 2
    /\ Len(usernames) = limit
    /\ Len(firstSeen) > limit

\* C3: every step leaves the accumulator it found as a prefix of the
\* accumulator it leaves (it grows at the end only), and the list handed to the
\* caller is the accumulator in that order.
C3_GrowsInDiscoveryOrder ==
    /\ [][IsPrefix(usernames, usernames') /\ IsPrefix(hasil_scrape, hasil_scrape')]_vars
    /\ [](FollowersEnded => returned = usernames)
    /\ [](pc = "p_done" => hasil_returned = hasil_scrape)

\* A list of two identifiers that took more than one iteration to collect
\* was handed back.
C3_Witness ==
    /\ script = "followers" /\ pc = "f_done" /\ ret = 0
    /\ extractions >= 2
    /\ Len(returned) = 2
    /\ Len(firstFound) = 1

\* C4: an extraction adds records only for usernames that had no record, and
\* the record of a username that had one keeps its display name, whatever
\* display name the rows show for it now.
C4_FirstWriteWins ==
    [][/\ \A u \in Stored(hasil_scrape) : NamesOf(hasil_scrape', u) = NamesOf(hasil_scrape, u)
       /\ \A n \in (Len(hasil_scrape) + 1)..Len(hasil_scrape') :
             hasil_scrape'[n][1] \notin Stored(hasil_scrape)]_vars

\* The extraction after the loop read a row whose username has a record with
\* another display name, and the loop had extracted before.
C4_Witness ==
    /\ script = "pengikis" /\ pc = "p_ekstrak" /\ call_site = "post"
    /\ i = jumlah_container
    /\ scroll_attempts >= 2
    /\ Len(hasil_scrape) = 2
    /\ \E r \in rejected : \E n \in 1..Len(hasil_scrape) :
          hasil_scrape[n][1] = r[1] /\ hasil_scrape[n][2] # r[2]

\* C5: once a merge has brought the accumulator to the cap (limit >= 1), the
\* harvest, unless a signal ends it first, stops in that iteration: no
\* element of that output is merged any more, no scroll advance and no
\* extraction follow, and the accumulator and the list returned are the first
\* limit identifiers in the order in which the extractor first output them.
C5_StopsAtCap ==
    (script = "followers" /\ limit >= 1 /\ Len(usernames) >= limit /\ ~interrupted) =>
        /\ pc \in {"f_merge", "f_collected", "f_visit", "f_done"}
        /\ found = <<>>
        /\ usernames = Take(firstSeen, limit)
        /\ FollowersEnded => returned = Take(firstSeen, limit)

\* The second output held one identifier and the third held it with two new
\* ones, one more than the cap of two had room for; the session ended in that
\* third iteration with the first two.
C5_Witness ==
    /\ script = "followers" /\ pc = "f_done" /\ ret = 0
    /\ limit = 2
    /\ extractions = 3
    /\ scrolls = 2
    /\ Len(firstFound) = 0
    /\ Len(firstSeen) = 3
    /\ returned = Take(firstSeen, limit)

SameSetEveryTime == script = "followers" /\ fixed /\ Cardinality(Range(firstFound)) < limit
EndedOnPlateau == FollowersEnded /\ attempts_no_change >= max_attempts_no_change
Terminated ==
    pc \in {"f_done", "f_unhandled", "f_rejected", "p_done", "p_rejected", "p_raised",
            "t_done", "r_done", "s_done", "s_unhandled"}

\* C6, as claimed: when every extractor output holds the same set of fewer
\* than limit identifiers, the loop makes no more than max_attempts_no_change
\* (5) iterations and returns that set in the order of its first output.
C6_AsClaimed ==
    SameSetEveryTime =>
        /\ extractions <= max_attempts_no_change
        /\ FollowersEnded => returned = firstFound

\* C6, amended: under the same condition the loop makes no more than
\* max_attempts_no_change + 1 (6) iterations; it makes exactly 6, with 5 scroll
\* advances, when every scroll succeeds and it so ends on the plateau; and it
\* returns that set in the order of its first output.
C6_FixedSetStopsAfterSixth ==
    SameSetEveryTime =>
        /\ extractions <= max_attempts_no_change + 1
        /\ FollowersEnded => returned = firstFound
        /\ EndedOnPlateau =>
              (extractions = max_attempts_no_change + 1 /\ scrolls = max_attempts_no_change)

\* Six outputs of the same identifier under a cap of two: the session ended
\* on the plateau with that one.
C6_Witness ==
    /\ SameSetEveryTime /\ EndedOnPlateau
    /\ pc = "f_done" /\ ret = 0
    /\ limit = 2
    /\ Len(firstFound) = 1
    /\ extractions = 6
    /\ returned = firstFound

\* C7, as claimed: in both loops the counter that ends the loop on a plateau
\* goes up by one in an iteration in which the observed size (the length of
\* usernames against prev_count; current_count against previous_count) did
\* not go up, and goes back to zero in an iteration in which it did.
C7_AsClaimed ==
    [][/\ (pc = "f_merge" /\ pc' # "f_merge") =>
             attempts_no_change' = IF Len(usernames) > prev_count THEN 0
                                   ELSE attempts_no_change + 1
       /\ (pc \in {"p_scroll", "p_ekstrak"} /\ pc' = "p_scroll" /\ ~P_Interrupt) =>
             scroll_attempts' = IF current_count' > previous_count THEN 0
                                ELSE scroll_attempts + 1]_vars

C9_AsClaimed == error \in {"none", "open", "interrupt"}

\* C10, as claimed: unless a signal interrupts it, a session never ends in an
\* exception that reaches the caller, and what the caller is handed holds all
\* that was accumulated.
C10_AsClaimed ==
    /\ pc = "f_unhandled" => interrupted
    /\ (pc = "f_done" /\ ret # 2) => results = usernames
    /\ pc = "p_done" => hasil_returned = hasil_scrape

(***************************************************************************)
(* Opening the list, failures and cleanup.                                 *)
(***************************************************************************)
NoStrategyMatched == attempted = <<"none", "none", "none">>

\* C11: when none of the three lookups of open_followers_modal matches,
\* run_scrape returns its failure code 2 with no harvest iteration run, no
\* profile visited and nothing collected, and save_debug_artifacts was called
\* exactly once.
C11_UnresolvedEntryPointStalls ==
    (script = "followers" /\ NoStrategyMatched) =>
        /\ open_why = "not_found"
        /\ pc \in {"f_open_failed", "f_done"}
        /\ extractions = 0 /\ scrolls = 0
        /\ usernames = <<>> /\ returned = <<>> /\ results = <<>>
        /\ pc = "f_open_failed" => debug_calls = 0 /\ ret = 0 - 1
        /\ pc = "f_done" => debug_calls = 1 /\ ret = 2

\* A session in which the three lookups found nothing has ended.
C11_Witness ==
    /\ script = "followers" /\ NoStrategyMatched
    /\ pc = "f_done" /\ ret = 2 /\ debug_calls = 1

\* C12: a run of run_scrape that returned a failure code called
\* save_debug_artifacts exactly once, and a run that returned 0 never did.
C12_AsClaimed ==
    (script = "followers" /\ pc = "f_done") =>
        IF ret = 0 THEN debug_calls = 0 ELSE debug_calls = 1

\* C13: once a session that has collected something is interrupted, its
\* accumulator stays as it is, and the session ends by handing back exactly
\* that accumulator.
C13_AsClaimed ==
    /\ [][(interrupted /\ usernames # <<>>) => usernames' = usernames]_vars
    /\ [][(interrupted /\ hasil_scrape # <<>>) => hasil_scrape' = hasil_scrape]_vars
    /\ []((script = "followers" /\ interrupted /\ usernames # <<>> /\ Terminated) =>
             (pc = "f_done" /\ returned = usernames))
    /\ []((script = "pengikis" /\ interrupted /\ pc = "p_done") =>
             hasil_returned = hasil_scrape)

\* C14: the status run_scrape returns tells a stop on the no-growth threshold
\* with some data from a stop at the cap: it returns its success code 0 only
\* when the cap was reached.
C14_AsClaimed ==
    (script = "followers" /\ pc = "f_done" /\ EndedOnPlateau /\ returned # <<>>) =>
        ret # 0

NoSelectorClicked == attempted = <<"raises", "raises", "raises">>
ListNotOpened == NoSelectorClicked \/ open_why = "dialog"

Failed(outcome) == outcome \in {"none", "raises"}
EveryStrategyFailed ==
    Len(attempted) = Strategies /\ \A k \in 1..Strategies : Failed(attempted[k])

\* C16: in both resolvers the strategies are tried in their order, each only
\* after those before it failed and none after the one that matched; the
\* resolver settles on the first element of the first strategy that matched,
\* and reports a failure exactly when all three strategies failed.
C16_AsClaimed ==
    /\ pc \in {"f_resolve", "p_resolve"} =>
            /\ strategy = Len(attempted) + 1
            /\ \A k \in 1..Len(attempted) : Failed(attempted[k])
    /\ pc \in {"f_click", "p_dialog"} =>
            /\ strategy = Len(attempted)
            /\ attempted[strategy] = "match"
            /\ \A k \in 1..(strategy - 1) : Failed(attempted[k])
            /\ loc = 1
    /\ (script = "pengikis" /\ open_why = "selectors") <=>
            (script = "pengikis" /\ EveryStrategyFailed)
    /\ (script = "followers" /\ open_why \in {"not_found", "exception"} /\ loc = 0) <=>
            (script = "followers" /\ EveryStrategyFailed)

C18_AsClaimed == (script = "followers" /\ root_lost /\ pc = "f_done") => ret # 0

\* C19: a call of save_debug_artifacts returns to its caller whatever happens
\* to the screenshot, the markup or the file: the caller goes on to the same
\* place with the same return code, and a capture that failed wrote one log
\* line and no markup file.
C19_CaptureNeverRaises ==
    [][debug_calls' # debug_calls =>
          /\ debug_calls' = debug_calls + 1
          /\ pc' # "f_unhandled" /\ error' # "debug"
          /\ pc = "f_open_exception" => pc' = "f_open_failed" /\ ret' = ret
          /\ pc = "f_open_failed" => pc' = "f_done" /\ ret' = 2
          /\ pc = "f_collected" => pc' = "f_done" /\ ret' = 3
          /\ <<usernames', returned', results', open_why'>> =
                 <<usernames, PySliceTo(usernames, limit), results, open_why>>
          /\ \/ /\ debug_logged' = debug_logged
                 /\ png_files' = png_files + 1 /\ html_files' = html_files + 1
             \/ /\ debug_logged' = debug_logged + 1
                 /\ png_files' \in {png_files, png_files + 1}
                 /\ html_files' = html_files]_vars

\* A run ended with its failure code after a capture whose screenshot was
\* written and whose markup was not.
C19_Witness ==
    /\ script = "followers" /\ pc = "f_done" /\ ret = 2
    /\ debug_calls = 1 /\ debug_logged = 1
    /\ png_files = 1 /\ html_files = 0

\* C20: _login_dengan_cookie calls goto at most five times, one call at a
\* time; the first call that returns ends the function, a call that raises
\* is followed by another while fewer than five were made, and the fifth
\* failure, and only it, is raised to jalankan.
C20_BoundedLoginRetries ==
    /\ [](goto_calls <= LoginAttempts)
    /\ [](pc = "p_login" => goto_calls = attempt /\ last_goto # "ok")
    /\ [](open_why = "login" <=> goto_calls = LoginAttempts /\ last_goto = "failed")
    /\ [][goto_calls' > goto_calls =>
            /\ pc = "p_login"
            /\ goto_calls' = goto_calls + 1
            /\ last_goto' = "ok" => pc' = "p_navigate" /\ open_why' = "none"
            /\ (last_goto' = "failed" /\ goto_calls' < LoginAttempts) =>
                   pc' = "p_login" /\ open_why' = "none"
            /\ (last_goto' = "failed" /\ goto_calls' = LoginAttempts) =>
                   pc' = "p_except" /\ open_why' = "login"]_vars

\* Five calls failed, and the session ended with nothing collected.
C20_Witness ==
    /\ script = "pengikis" /\ pc = "p_done"
    /\ open_why = "login"
    /\ goto_calls = LoginAttempts /\ last_goto = "failed"
    /\ hasil_returned = <<>>

\* An iteration of the scroll loop of _gulir_dan_muat_data: the count of line
\* 226 was read and compared with previous_count (lines 229-258).
IterationOfScrollLoop == P_IterGrow \/ P_IterSame \/ P_IterShrink

\* C21, as claimed: every iteration of the harvest loop calls the extractor
\* exactly once.  In collect_usernames_from_followers_dialog the calls made are
\* one per scroll advance, plus the one of the iteration under way; in
\* _gulir_dan_muat_data every iteration that read the count goes on to the call
\* of _ekstrak_data_real_time.
C21_AsClaimed ==
    /\ [](script = "followers" =>
            extractions = scrolls + (IF pc \in {"f_merge", "f_scroll"} THEN 1 ELSE 0)
            \/ pc \in {"f_collected", "f_visit", "f_done", "f_unhandled"})
    /\ [][IterationOfScrollLoop => (pc' = "p_ekstrak" /\ call_site' = "loop")]_vars

\* C22, as claimed: every wait is within the limits of its script (SCROLL_PAUSE
\* in scrape_followers.py, MinPause to MaxPause in pengikis.py), and a wait
\* made after an iteration that added to the run of iterations without growth
\* is no shorter than the wait made before it.
C22_AsClaimed ==
    /\ [](script = "followers" => pause \in {0, SCROLL_PAUSE})
    /\ [](script = "pengikis" => pause = 0 \/ (MinPause <= pause /\ pause <= MaxPause))
    /\ [][(script = "followers" /\ pause # 0) => pause' = pause]_vars
    /\ [][(IterationOfScrollLoop /\ no_growth_run >= 1) => pause' >= pause]_vars

\* The target descriptor is one the specification calls invalid.
InvalidTarget ==
    \/ target = ""
    \/ mode_kikis \notin ModeMap
    \/ script = "followers" /\ limit <= 0

\* C23, as claimed: a session whose username is empty, whose mode is unknown
\* or whose cap is 0 or less is turned away before a browser is launched, a
\* page is visited or an iteration of the harvest is made.
C23_AsClaimed ==
    InvalidTarget =>
        /\ browser = "none"
        /\ goto_calls = 0 /\ extractions = 0 /\ scroll_attempts = 0

\* C24, as claimed: of two sessions in one process, each keeps what it alone
\* set: while an object is at work the handler of SIGINT is its own, its list
\* holds rows of its subject only, and the file a session wrote holds its rows
\* when the process ends.
C24_AsClaimed ==
    /\ \A s \in Sessions :
          (script = "two_pengikis" /\ t_phase[s] = "running") => sigint_handler = s
    /\ \A s \in Sessions : Range(t_held[s]) \subseteq {SubjectId(s)}
    /\ \A s \in Sessions :
          (script = "two_followers" /\ pc = "t_done" /\ t_result[s] # <<>>) =>
              results_csv = t_result[s]

\* C25: once the scraper was launched, run_scraper.py exits with the exit code
\* the scraper ended with, whichever that is; and it exits with 20 or 21 only
\* when the scraper was not launched: with 20 straight from the cookie step,
\* with 21 after the diagnostic fetch, whatever that gave.
C25_ExitCodeOfScraper ==
    /\ (script = "run_scraper" /\ pc = "r_done") =>
          /\ exit_status # NoCode
          /\ (scraper_launched /\ rc >= 0) => exit_status = rc
          /\ exit_status \in {CookieFailureCode, ScraperMissingCode} => ~scraper_launched
          /\ ~scraper_launched =>
                (exit_status \in {CookieFailureCode, ScraperMissingCode} /\ rc = NoCode)
    /\ (script = "run_scraper" /\ pc # "r_done") =>
          (exit_status = NoCode /\ ~scraper_launched)

\* The scraper was launched though the diagnostic fetch did not pass, ended
\* with 1, and so did run_scraper.py.
C25_Witness ==
    /\ script = "run_scraper" /\ pc = "r_done"
    /\ scraper_launched /\ ~diag_ok
    /\ rc = 1 /\ exit_status = 1

\* C26, as claimed: main never ends on an exception of the loop; the rows
\* written are those of the usernames handled, in their order, and all of them
\* when main is over; a profile whose load or whose reads failed has a row
\* with its error field set; and save_debug_artifacts is called no more than
\* once for a profile.
C26_AsClaimed ==
    script = "profiles" =>
        /\ (pc = "s_unhandled") => (s_rows = <<>> /\ s_outcomes = <<>>)
        /\ Len(s_rows) <= Len(s_usernames)
        /\ \A k \in 1..Len(s_rows) : s_rows[k].username = s_usernames[k]
        /\ pc = "s_done" => Len(s_rows) = Len(s_usernames)
        /\ \A k \in 1..Len(s_rows) : s_outcomes[k] # "ok" => s_rows[k].error # ""
        /\ \A k \in 1..Len(s_captures) : s_captures[k] <= 1

\* C27: with a limit of 1 or more the loop of
\* collect_usernames_from_followers_dialog makes no more than
\* max_attempts_no_change * limit + 1 iterations: an iteration that had a list
\* to compare with either made the list longer or raised attempts_no_change by
\* one, the list never passes limit, and the loop is left once
\* attempts_no_change is max_attempts_no_change; with a limit of 0 or less no
\* iteration is made and the result is empty; and the loop, once entered, is
\* left.
C27_HarvestTerminates ==
    /\ []((script = "followers" /\ limit >= 1) =>
             /\ extractions <= max_attempts_no_change * limit + 1
             /\ Len(usernames) <= limit
             /\ attempts_no_change <= max_attempts_no_change)
    /\ []((script = "followers" /\ limit <= 0) =>
             (extractions = 0 /\ usernames = <<>> /\ returned = <<>>))
    /\ [][(F_Check /\ prev_count >= 0) =>
             \/ Len(usernames) > prev_count /\ attempts_no_change' = 0
             \/ Len(usernames) = prev_count
                /\ attempts_no_change' = attempts_no_change + 1]_vars
    /\ [][(script = "followers" /\ pc = "f_merge" /\ pc' = "f_scroll") =>
             attempts_no_change' < max_attempts_no_change]_vars
    /\ (script = "followers" /\ pc = "f_loop") ~>
           (pc \in {"f_collected", "f_visit", "f_done", "f_unhandled"})

\* A limit of two: five iterations found nothing, the sixth found one
\* identifier, five more found no other, and the loop was left after the
\* eleventh.
C27_Witness ==
    /\ script = "followers" /\ pc = "f_done" /\ error = "none"
    /\ limit = 2
    /\ extractions = max_attempts_no_change * limit + 1
    /\ Len(returned) = 1

\* C28: the first iteration of collect_usernames_from_followers_dialog finds
\* prev_count at -1 and leaves attempts_no_change at 0, whatever it collected;
\* so when every extraction gave the same set of fewer than limit identifiers
\* (none at all included) and every scroll found the dialog, the loop is left
\* on the plateau after exactly max_attempts_no_change + 1 extractions and
\* max_attempts_no_change scroll advances.
C28_FirstIterationNotCounted ==
    /\ [][(F_Check /\ extractions = 1) =>
             /\ prev_count = 0 - 1
             /\ attempts_no_change' = 0
             /\ pc' = "f_collected" => Len(usernames) >= limit]_vars
    /\ []((SameSetEveryTime /\ ~root_lost /\ (pc = "f_collected" \/ FollowersEnded)) =>
             /\ extractions = max_attempts_no_change + 1
             /\ scrolls = max_attempts_no_change
             /\ attempts_no_change = max_attempts_no_change)

\* Six extractions that found nothing, five scrolls between them, and the
\* session over with an empty list.
C28_Witness ==
    /\ SameSetEveryTime /\ ~root_lost
    /\ pc = "f_done" /\ ret = 3
    /\ firstFound = <<>> /\ returned = <<>>
    /\ extractions = max_attempts_no_change + 1
    /\ scrolls = max_attempts_no_change

\* C29: scroll_attempts never goes down; every iteration of the loop of
\* _gulir_dan_muat_data that stays in the loop adds exactly one to it, whatever
\* the count did; and an iteration whose count is previous_count leaves the
\* loop exactly when scroll_attempts is PlateauAttempts (5) or more, however
\* many of the iterations counted were without growth.
C29_CountsEveryIteration ==
    /\ [][scroll_attempts' >= scroll_attempts]_vars
    /\ [][((P_IterSame \/ P_IterShrink \/ P_IterGrowEnd) /\ pc' = "p_scroll") =>
             scroll_attempts' = scroll_attempts + 1]_vars
    /\ [][P_IterSame =>
             /\ pc' = "p_post" <=> scroll_attempts >= PlateauAttempts
             /\ pc' = "p_post" => scroll_attempts' = scroll_attempts]_vars
    /\ [](no_growth_run <= scroll_attempts + 1)

\* Five iterations were counted, the latest of them with a changed count, and
\* the one iteration that then found the count unchanged ended the scrolling.
C29_Witness ==
    /\ script = "pengikis" /\ pc = "p_post"
    /\ scroll_attempts = PlateauAttempts
    /\ no_growth_run = 1
    /\ current_count = previous_count
    /\ hasil_scrape # <<>>

\* C30: an iteration of the loop of _gulir_dan_muat_data that finds a count
\* below previous_count calls no extraction and changes no record, stays in
\* the loop as an iteration with a changed count (it ends the run of
\* iterations without growth), and makes previous_count that lower count;
\* and any iteration that finds a count above previous_count, lowered or not,
\* goes to the extraction.
C30_LowerCountIsNoPlateau ==
    /\ [][(IterationOfScrollLoop /\ current_count' < previous_count) =>
             /\ pc' = "p_scroll"
             /\ previous_count' = current_count'
             /\ scroll_attempts' = scroll_attempts + 1
             /\ no_growth_run' = 0
             /\ UNCHANGED <<hasil_scrape, username_terproses, rejected,
                            call_site, i>>]_vars
    /\ [][(IterationOfScrollLoop /\ current_count' > previous_count) =>
             (pc' = "p_ekstrak" /\ call_site' = "loop" /\ i' = 0)]_vars
    /\ [](script = "pengikis" /\ pc = "p_scroll" => previous_count = current_count)

\* An extraction of the loop begins with a record already held and with
\* previous_count at 0: an earlier iteration extracted at a higher count, a
\* later one lowered previous_count, and the count is above it again.
C30_Witness ==
    /\ script = "pengikis" /\ pc = "p_ekstrak" /\ call_site = "loop"
    /\ i = 0
    /\ hasil_scrape # <<>>
    /\ previous_count = 0
    /\ current_count = 1
    /\ scroll_attempts >= 2

\* The rows an extraction can read an identifier from that passes the filter of
\* line 410.
ReadableValid ==
    {c \in Containers : c.kind = "ok" /\ ValidUsername(HrefReplace(c.href))}

ModalNotOpened == script = "followers" /\ open_why \in OpenFailures

\* C32: a run_scrape that returns hands back 2 exactly when the modal was not
\* opened, 3 exactly when it was and the harvest returned an empty list, 0
\* exactly when the harvest returned a non-empty list; a modal that was not
\* opened always ends in the return of 2, and run_scrape ends without a code
\* only when an exception left the harvest.  Profiles are visited, and
\* write_csv is called, only after a non-empty harvest and before the return of
\* 0: the visits take the harvested usernames one at a time in their order, and
\* the write follows the visit of the last one.
C32_ReturnCodes ==
    /\ []((script = "followers" /\ pc = "f_done")
             => /\ ret \in {0, 2, 3}
                /\ ret = 2 <=> ModalNotOpened
                /\ ret = 3 <=> (~ModalNotOpened /\ returned = <<>>)
                /\ ret = 0 <=> (~ModalNotOpened /\ returned # <<>>))
    /\ [](ModalNotOpened => pc \in {"f_open_exception", "f_open_failed", "f_done"})
    /\ []((script = "followers" /\ pc = "f_unhandled")
             => ret = 0 - 1 /\ error # "none" /\ ~ModalNotOpened /\ results = <<>>)
    /\ []((script = "followers" /\ (results # <<>> \/ pc = "f_visit"))
             => /\ pc \in {"f_visit", "f_done"}
                /\ ~ModalNotOpened /\ returned # <<>>
                /\ ret = IF pc = "f_done" THEN 0 ELSE 0 - 1
                /\ results = Take(returned, Len(results)))
    /\ [][(script = "followers" /\ results' # results)
             => /\ pc = "f_visit" /\ pc' = "f_visit"
                /\ results' = Take(returned, Len(results) + 1)
                /\ Len(results') = Len(results) + 1]_vars
    /\ [][F_Write => (results = returned /\ results' = results /\ ret' = 0)]_vars
    /\ [][(script = "followers" /\ ret' = 0 /\ ret # 0) => F_Write]_vars

\* run_scrape returned 0 after it visited two harvested usernames in the order
\* of the harvest.
C32_Witness ==
    /\ script = "followers" /\ pc = "f_done" /\ ret = 0
    /\ Len(returned) = 2
    /\ results = returned

\* C33: main of run_scraper.py goes from the cookie step to the diagnostic
\* fetch and from there to the launch, never otherwise: a cookie step that
\* fails ends main at once with 20, before the diagnostic and the scraper; the
\* diagnostic fetch, whatever it gave (passed, not passed, raised), is followed
\* by the test for scrape_profiles.py; and from there the scraper can always be
\* launched, diag_ok or not.
C33_StepOrder ==
    /\ [][(script = "run_scraper" /\ pc = "init")
             => \/ pc' = "r_diagnose" /\ exit_status' = NoCode
                \/ /\ pc' = "r_done" /\ exit_status' = CookieFailureCode
                   /\ ~diag_ok' /\ ~scraper_launched']_vars
    /\ [][(script = "run_scraper" /\ pc = "r_diagnose")
             => (pc' = "r_scraper" /\ exit_status' = NoCode /\ ~scraper_launched')]_vars
    /\ [][(script = "run_scraper" /\ pc = "r_scraper")
             => (pc' = "r_done" /\ diag_ok' = diag_ok)]_vars
    /\ [][(script = "run_scraper" /\ scraper_launched' # scraper_launched)
             => (pc = "r_scraper" /\ scraper_launched')]_vars
    /\ [][(script = "run_scraper" /\ diag_ok' # diag_ok) => pc = "r_diagnose"]_vars
    /\ [][~(script = "run_scraper" /\ pc = "r_done")]_vars
    /\ []((script = "run_scraper" /\ pc = "r_scraper") => ENABLED R_Call)

\* The diagnostic fetch did not pass (or raised), the scraper was launched all
\* the same, and main has exited with the scraper's code.
C33_Witness ==
    /\ script = "run_scraper" /\ pc = "r_done"
    /\ ~diag_ok
    /\ scraper_launched
    /\ rc = 0 /\ exit_status = 0

\* C34: an exception other than KeyboardInterrupt that leaves a step of
\* jalankan is followed by one call of _auto_save_data, then by tutup, then by
\* the return of hasil_scrape as it was; without an exception there is no
\* auto-save.  _auto_save_data leaves hasil_scrape alone and writes a file only
\* with records and a path, under the path's name with "_partial" put before
\* the last extension.  A KeyboardInterrupt is followed by tutup alone: no
\* auto-save, no file, no return value.
C34_AutoSaveThenClose ==
    /\ [][(script = "pengikis" /\ error' # error)
             => pc' \in {"p_except", "p_raised"}]_vars
    /\ [][(script = "pengikis" /\ pc = "p_except")
             => /\ pc' = "p_finally"
                /\ auto_saves' = auto_saves + 1
                /\ hasil_scrape' = hasil_scrape
                /\ closed' = closed
                /\ partial_file' # NoFile => hasil_scrape # <<>>]_vars
    /\ [][(script = "pengikis" /\ pc = "p_finally")
             => /\ pc' = "p_done"
                /\ closed' /\ browser' # "open"
                /\ hasil_returned' = hasil_scrape /\ hasil_scrape' = hasil_scrape
                /\ auto_saves' = auto_saves /\ partial_file' = partial_file]_vars
    /\ [][(script = "pengikis" /\ auto_saves' # auto_saves) => pc = "p_except"]_vars
    /\ []((script = "pengikis" /\ pc \in {"p_finally", "p_done"})
             => /\ auto_saves = IF error = "none" THEN 0 ELSE 1
                /\ error # "keyboard_interrupt"
                /\ pc = "p_done" => (closed /\ hasil_returned = hasil_scrape))
    /\ [](script = "pengikis"
             => \A path \in OutputFiles, io_ok \in BOOLEAN :
                   LET st == AutoSaveData(hasil_scrape, path, io_ok)
                   IN  /\ st.hasil = hasil_scrape
                       /\ st.file # NoFile
                             => /\ hasil_scrape # <<>> /\ path # NoFile
                                /\ st.file = PartialName(path)
                                /\ "_partial" \in Range(st.file))
    /\ [][(script = "pengikis" /\ error' = "keyboard_interrupt")
             => /\ pc' = "p_raised" /\ closed' /\ browser' # "open"
                /\ auto_saves' = auto_saves /\ partial_file' = partial_file
                /\ hasil_returned' = hasil_returned]_vars
    /\ []((script = "pengikis" /\ pc = "p_raised")
             => /\ error = "keyboard_interrupt" /\ closed
                /\ auto_saves = 0 /\ partial_file = NoFile /\ hasil_returned = <<>>)
    /\ [][~(script = "pengikis" /\ pc = "p_raised")]_vars

\* The count of the scroll loop raised with a record held and a path set:
\* _auto_save_data ran once and wrote the partial file, tutup ran, and jalankan
\* returned the record.
C34_Witness ==
    /\ script = "pengikis" /\ pc = "p_done"
    /\ error = "count"
    /\ auto_saves = 1
    /\ closed
    /\ partial_file = <<"o", ".", "b", "_partial", ".", "c">>
    /\ hasil_returned # <<>> /\ hasil_returned = hasil_scrape

\* C35: _ekstrak_data_pengguna returns at once, with hasil_scrape and all else
\* as they were, when hasil_scrape holds a record; only with an empty
\* hasil_scrape does it call the extraction, with a new empty set.  So every
\* record present during that call was added by it under an identifier not
\* recorded before, and no identifier of the scroll phase is appended again.
C35_FinalCheckOnlyWhenEmpty ==
    /\ [][(script = "pengikis" /\ pc = "p_final" /\ hasil_scrape # <<>>)
             => /\ pc' = "p_finally"
                /\ hasil_scrape' = hasil_scrape
                /\ call_site' = call_site /\ i' = i]_vars
    /\ [][(script = "pengikis" /\ pc = "p_final" /\ hasil_scrape = <<>>)
             => /\ pc' = "p_ekstrak" /\ call_site' = "final" /\ i' = 0
                /\ username_terproses' = {}
                /\ hasil_scrape' = <<>>]_vars
    /\ [][(script = "pengikis" /\ call_site' = "final") =>
             (call_site = "final" \/ (pc = "p_final" /\ hasil_scrape = <<>>))]_vars
    /\ []((script = "pengikis" /\ call_site = "final")
             => /\ Stored(hasil_scrape) = username_terproses
                /\ NoDuplicates(Identifiers(hasil_scrape)))
    /\ [][(script = "pengikis" /\ call_site = "final" /\ hasil_scrape' # hasil_scrape)
             => /\ Len(hasil_scrape') = Len(hasil_scrape) + 1
                /\ SubSeq(hasil_scrape', 1, Len(hasil_scrape)) = hasil_scrape
                /\ hasil_scrape'[Len(hasil_scrape')][1] \notin Stored(hasil_scrape)]_vars

\* The scroll phase recorded something, and _ekstrak_data_pengguna returned
\* without an extraction: the last call made was the one after the loop.
C35_Witness ==
    /\ script = "pengikis" /\ pc = "p_finally" /\ error = "none"
    /\ call_site = "post"
    /\ Len(hasil_scrape) = 2

====
